---- MODULE Spec2Model ----
(***************************************************************************)
(* Model of the CollabUs map: the public page (Home), its filter bar, the  *)
(* MapView component, the distance helpers they use, and the Admin page    *)
(* with its coordinate normalizer.                                         *)
(*                                                                         *)
(* Numbers.  A JavaScript number is modelled as a record                   *)
(*   [k |-> "num", v |-> n]   a finite number n (fixed point, see below)   *)
(*   [k |-> "nan", v |-> 0]   NaN                                          *)
(*   [k |-> "inf", v |-> 0]   +Infinity / -Infinity                        *)
(*   [k |-> "undef", v |-> 0] a value whose typeof is not 'number'         *)
(* Coordinates are in tenths of a degree, trigonometric arguments in       *)
(* twentieths of a degree (so dLat / 2 is exact), sines and cosines are    *)
(* scaled by 10^4 and rounded, distances and radii are in tenths of a      *)
(* mile.  The rounding of the fixed-point sine table stands for the        *)
(* rounding of Math.sin and Math.cos, whose accuracy the language leaves   *)
(* to the implementation: sin^2 + cos^2 may exceed 1.  The table is        *)
(* coarser than doubles, so it overshoots on more inputs than they do.     *)
(***************************************************************************)
EXTENDS Integers, Sequences, FiniteSets, TLC

\* ---------------------------------------------------------------- bounds
\* the longest list of membership rows
MaxMembers == 3

\* ---------------------------------------------------------------- state
VARIABLES
  partners,            \* Home: useState<Partner[]>([])
  collabs,             \* Home: useState<Collab[]>([])
  members,             \* Home: useState<CollabMember[]>([])
  userLocation,        \* Home: useState<LatLng | null>(null)
  radiusMiles,         \* Home: useState<number>(5), in tenths of a mile
  focusPartnerId,      \* Home: useState<string | null>(null), "" is null
  showCollabs,         \* Home: useState<boolean>(false)
  selectedCollabId,    \* Home: useState('active')
  visiblePartners,     \* Home: the memoised visible list of the last render
  collabEdges,         \* Home: the memoised edge list of the last render
  mapVisiblePartners,  \* MapView: the memoised visible list of the last render
  phase,               \* which computation the state belongs to
  inputLat,            \* normalizeCoordinates: the text of the latitude field
  inputLng,            \* normalizeCoordinates: the text of the longitude field
  norm,                \* normalizeCoordinates: what the call returned or threw
  address,             \* FilterBar: useState(''), the text of the address field
  busy,                \* FilterBar: useState(false)
  pending,             \* FilterBar: the asynchronous operations in flight
  alerted,             \* FilterBar: the message of the last alert(), "" if none
  invocations,         \* history: one record per click on Search / Use my location
  pointA,              \* distance functions: the first argument
  pointB,              \* distance functions: the second argument
  distance,            \* distance functions: what each of the three returned
  form,                \* Admin: useState of the partner form (lat, lng, address)
  editingId,           \* Admin: useState<string | null>(null), "" is null
  table,               \* the rows of the partners table
  editingCollabId,     \* Admin: useState<string | null>(null), "" is null
  selectedPartnerIds,  \* Admin: useState<string[]>([])
  memberTable,         \* the rows of the collab_members table
  lastSave             \* Admin: what the last save or update of a partner did

\* the arguments and the outcome of normalizeCoordinates
normalizerVars == << inputLat, inputLng, norm >>

\* the state of the FilterBar of the index page and the history of its clicks
filterBarVars == << address, busy, pending, alerted, invocations >>

\* the arguments and the results of the distance functions
distanceVars == << pointA, pointB, distance >>

\* the state of the Admin page and the two tables it writes
adminVars ==
  << form, editingId, table, editingCollabId, selectedPartnerIds, memberTable,
     lastSave >>

vars ==
  << partners, collabs, members, userLocation, radiusMiles, focusPartnerId,
     showCollabs, selectedCollabId, visiblePartners, collabEdges,
     mapVisiblePartners, phase, normalizerVars, filterBarVars, distanceVars,
     adminVars >>

\* ---------------------------------------------------------------- numbers
Num(n) == [k |-> "num", v |-> n]

NaN == [k |-> "nan", v |-> 0]

Infinity == [k |-> "inf", v |-> 0]

Undef == [k |-> "undef", v |-> 0]

\* typeof x === 'number'
TypeofNumber(x) == x.k \in {"num", "nan", "inf"}

\* Number.isNaN(x)
NumberIsNaN(x) == x.k = "nan"

\* Number.isFinite(x)
IsFinite(x) == x.k = "num"

\* round(10^4 * sin(d degrees)) for d = 0..90; SinTab[d + 1] is sin(d)
SinTab ==
  << 0, 175, 349, 523, 698, 872, 1045, 1219, 1392, 1564,
     1736, 1908, 2079, 2250, 2419, 2588, 2756, 2924, 3090, 3256,
     3420, 3584, 3746, 3907, 4067, 4226, 4384, 4540, 4695, 4848,
     5000, 5150, 5299, 5446, 5592, 5736, 5878, 6018, 6157, 6293,
     6428, 6561, 6691, 6820, 6947, 7071, 7193, 7314, 7431, 7547,
     7660, 7771, 7880, 7986, 8090, 8192, 8290, 8387, 8480, 8572,
     8660, 8746, 8829, 8910, 8988, 9063, 9135, 9205, 9272, 9336,
     9397, 9455, 9511, 9563, 9613, 9659, 9703, 9744, 9781, 9816,
     9848, 9877, 9903, 9925, 9945, 9962, 9976, 9986, 9994, 9998,
     10000 >>

\* sine of u twentieths of a degree, 0 <= u <= 1800, linear interpolation
SinQuadrant(u) ==
  LET d == u \div 20
      f == u % 20
  IN  IF f = 0 THEN SinTab[d + 1]
      ELSE SinTab[d + 1] + ((SinTab[d + 2] - SinTab[d + 1]) * f + 10) \div 20

\* Math.sin of an angle of u twentieths of a degree (any integer u)
Sin(u) ==
  LET r == u % 7200
  IN  IF r <= 1800 THEN SinQuadrant(r)
      ELSE IF r <= 3600 THEN SinQuadrant(3600 - r)
      ELSE IF r <= 5400 THEN 0 - SinQuadrant(r - 3600)
      ELSE 0 - SinQuadrant(7200 - r)

\* Math.cos
Cos(u) == Sin(u + 1800)

RECURSIVE SqrtSearch(_, _, _)
SqrtSearch(n, lo, hi) ==
  IF lo >= hi THEN lo
  ELSE LET mid == (lo + hi + 1) \div 2
       IN  IF mid * mid <= n THEN SqrtSearch(n, mid, hi)
           ELSE SqrtSearch(n, lo, mid - 1)

RECURSIVE SqrtBound(_, _)
\* the first b = 1, 2, 4, ... with b * b > n
SqrtBound(n, b) == IF b * b > n THEN b ELSE SqrtBound(n, 2 * b)

\* Math.sqrt of h (scaled by 10^8): scaled by 10^4 and rounded to nearest,
\* NaN for a negative h
Sqrt(h) ==
  IF h < 0 THEN NaN
  ELSE LET b == SqrtBound(h, 1)
           r == SqrtSearch(h, b \div 2, b)
       IN  IF h - r * r > r THEN Num(r + 1) ELSE Num(r)

\* Math.min(1, x): NaN when x is NaN
MinOne(x) ==
  LET y == x
  IN  IF y.k = "nan" THEN NaN ELSE IF y.v > 10000 THEN Num(10000) ELSE y

RECURSIVE AsinSearch(_, _)
AsinSearch(x, d) ==
  IF d >= 90 THEN 90
  ELSE IF SinTab[d + 2] > x THEN d
  ELSE AsinSearch(x, d + 1)

\* Math.asin of x >= 0 (scaled by 10^4): an angle in 200ths of a degree,
\* NaN when x is NaN or x > 1
Asin(x) ==
  LET y == x
      d == AsinSearch(y.v, 0)
  IN  IF y.k = "nan" \/ y.v > 10000 THEN NaN
      ELSE IF d = 90 THEN Num(18000)
      ELSE Num(200 * d
               + (200 * (y.v - SinTab[d + 1])) \div (SinTab[d + 2] - SinTab[d + 1]))

\* x * y / 10^8 for x, y scaled by 10^8, without leaving 32 bits
MulScaled(x, y) ==
  LET xh == x \div 10000
      xl == x % 10000
      yh == y \div 10000
      yl == y % 10000
  IN  xh * yh + (xh * yl + xl * yh + (xl * yl) \div 10000) \div 10000

\* the haversine term h, scaled by 10^8, of two points with finite
\* coordinates (tenths of a degree):
\* sin(dLat/2)^2 + cos(lat1) * cos(lat2) * sin(dLng/2)^2
HaversineH(alat, alng, blat, blng) ==
  LET sinDLat == Sin(blat - alat)
      sinDLng == Sin(blng - alng)
  IN  sinDLat * sinDLat
        + MulScaled(Cos(2 * alat) * Cos(2 * blat), sinDLng * sinDLng)

\* 2 * R * theta for theta in 200ths of a degree and R = 3958.8 miles:
\* 2 * 3958.8 * pi / 180 / 200 = 0.69094 miles, result in tenths of a mile
MilesOfAngle(theta) ==
  LET t == theta
  IN  IF t.k = "nan" THEN NaN ELSE Num((t.v * 69094) \div 10000)

AllFinite(a, b) ==
  IsFinite(a.lat) /\ IsFinite(a.lng) /\ IsFinite(b.lat) /\ IsFinite(b.lng)

\* index page: haversineMiles, no clamp before the arcsine
haversineMiles(a, b) ==
  IF ~AllFinite(a, b) THEN NaN
  ELSE MilesOfAngle(Asin(Sqrt(HaversineH(a.lat.v, a.lng.v, b.lat.v, b.lng.v))))

\* MapView: milesBetween, Math.min(1, Math.sqrt(h)) before the arcsine
milesBetween(a, b) ==
  IF ~AllFinite(a, b) THEN NaN
  ELSE MilesOfAngle(Asin(MinOne(Sqrt(HaversineH(a.lat.v, a.lng.v, b.lat.v, b.lng.v)))))

\* 2 * R * theta for theta in 200ths of a degree and R = 6371 km:
\* 2 * 6371 * pi / 180 / 200 = 1.11195 km, result in tenths of a km
KmOfAngle(theta) ==
  LET t == theta
  IN  IF t.k = "nan" THEN NaN ELSE Num((t.v * 111195) \div 10000)

\* lib/geo.ts: haversineDistance, kilometres, no clamp before the arcsine
haversineDistance(a, b) ==
  IF ~AllFinite(a, b) THEN NaN
  ELSE KmOfAngle(Asin(Sqrt(HaversineH(a.lat.v, a.lng.v, b.lat.v, b.lng.v))))

\* d <= r of JavaScript: false when either side is NaN
NumLeq(d, r) ==
  LET x == d
  IN  x.k = "num" /\ r.k = "num" /\ x.v <= r.v

\* ---------------------------------------------------------------- sequences
RECURSIVE SeqsUpTo(_, _)
\* the sequences over S of length at most n
SeqsUpTo(S, n) ==
  IF n = 0 THEN {<< >>}
  ELSE LET shorter == SeqsUpTo(S, n - 1)
       IN  shorter \cup {Append(q, x) : q \in {r \in shorter : Len(r) = n - 1}, x \in S}

Range(q) == {q[i] : i \in 1..Len(q)}

\* partners.map((p) => p.id)
Ids(ps) == {ps[i].id : i \in 1..Len(ps)}

DistinctIds(ps) == \A i, j \in 1..Len(ps) : ps[i].id = ps[j].id => i = j

\* ---------------------------------------------------------------- parsing
\* A text is a sequence of one-character strings.
Digits == << "0", "1", "2", "3", "4", "5", "6", "7", "8", "9" >>

IsDigit(c) == \E d \in 1..10 : Digits[d] = c

DigitValue(c) == (CHOOSE d \in 1..10 : Digits[d] = c) - 1

RECURSIVE TrimLeft(_)
TrimLeft(s) == IF s # << >> /\ Head(s) = " " THEN TrimLeft(Tail(s)) ELSE s

RECURSIVE TrimRight(_)
TrimRight(s) ==
  IF s # << >> /\ s[Len(s)] = " " THEN TrimRight(SubSeq(s, 1, Len(s) - 1)) ELSE s

\* String.prototype.trim
Trim(s) == TrimRight(TrimLeft(s))

RECURSIVE DigitRun(_)
\* the length of the leading run of digits of s
DigitRun(s) == IF s # << >> /\ IsDigit(Head(s)) THEN 1 + DigitRun(Tail(s)) ELSE 0

RECURSIVE DigitsValue(_, _)
\* the value of a run of digits, acc the value of the digits already read
DigitsValue(s, acc) ==
  IF s = << >> THEN acc ELSE DigitsValue(Tail(s), 10 * acc + DigitValue(Head(s)))

InfinityText == << "I", "n", "f", "i", "n", "i", "t", "y" >>

StartsWith(s, prefix) == Len(s) >= Len(prefix) /\ SubSeq(s, 1, Len(prefix)) = prefix

\* parseFloat(s), in tenths: leading white space is skipped, then the longest
\* prefix that is a decimal literal (sign, digits, '.', digits) or Infinity is
\* read and whatever follows it is ignored; NaN when there is no such
\* prefix.  Decimals after the first are dropped (the texts of the model
\* have at most one).
ParseFloat(s) ==
  LET t == TrimLeft(s)
      signed == t # << >> /\ Head(t) \in {"-", "+"}
      negative == t # << >> /\ Head(t) = "-"
      u == IF signed THEN Tail(t) ELSE t
      n == DigitRun(u)
      rest == SubSeq(u, n + 1, Len(u))
      hasFraction == Len(rest) >= 2 /\ rest[1] = "." /\ IsDigit(rest[2])
      magnitude == 10 * DigitsValue(SubSeq(u, 1, n), 0)
                     + (IF hasFraction THEN DigitValue(rest[2]) ELSE 0)
  IN  IF StartsWith(u, InfinityText) THEN Infinity
      ELSE IF n = 0 /\ ~hasFraction THEN NaN
      ELSE Num(IF negative THEN 0 - magnitude ELSE magnitude)

\* ---------------------------------------------------------------- normalizer
Abs(n) == IF n < 0 THEN 0 - n ELSE n

\* Math.abs(x) > limit, x not NaN
AbsGreater(x, limit) == x.k = "inf" \/ Abs(x.v) > limit

\* SignCorrection leaving a positive longitude as it is
SignCorrection_Kept(lng) == lng

\* if (lng > 0) lng = -lng
SignCorrection(lng) == IF lng > 0 THEN 0 - lng ELSE lng

\* RangeError rejecting the boundary values as well
RangeError_Boundary(lat, lng) == AbsGreater(lat, 899) \/ AbsGreater(lng, 1799)

\* Math.abs(lat) > 90 || Math.abs(lng) > 180
RangeError(lat, lng) == AbsGreater(lat, 900) \/ AbsGreater(lng, 1800)

\* const DAYTON = { lat: 39.7589, lng: -84.1916 }, in 10^-4 degrees
DAYTON == [lat |-> 397589, lng |-> -841916]

\* dLat > 10 || dLng > 10, for lat and lng in tenths of a degree
ObviouslyFar(lat, lng) ==
  LET dLat == Abs(1000 * lat - DAYTON.lat)
      dLng == Abs(1000 * lng - DAYTON.lng)
  IN  dLat > 100000 \/ dLng > 100000

InvalidFormat == "Latitude/Longitude must be numbers (decimal degrees)."

OutOfRange == "Latitude must be between -90 and 90, longitude between -180 and 180."

\* throw new Error(message)
Throw(message) ==
  [ok |-> FALSE, error |-> message, lat |-> NaN, lng |-> NaN, obviouslyFar |-> FALSE]

\* return { lat, lng, obviouslyFar }
Return(lat, lng) ==
  [ok |-> TRUE, error |-> "", lat |-> Num(lat), lng |-> Num(lng),
   obviouslyFar |-> ObviouslyFar(lat, lng)]

\* no call has been made
NotCalled ==
  [ok |-> FALSE, error |-> "", lat |-> NaN, lng |-> NaN, obviouslyFar |-> FALSE]

\* normalizeCoordinates without the second sign correction of the swap
normalizeCoordinates_SwapUncorrected(textLat, textLng) ==
  LET lat0 == IF textLat = << >> THEN NaN ELSE ParseFloat(Trim(textLat))
      lng0 == IF textLng = << >> THEN NaN ELSE ParseFloat(Trim(textLng))
  IN  IF NumberIsNaN(lat0) \/ NumberIsNaN(lng0) THEN Throw(InvalidFormat)
      ELSE IF RangeError(lat0, lng0) THEN Throw(OutOfRange)
      ELSE LET lng1 == SignCorrection(lng0.v)
               swapped == Abs(lat0.v) > 600 /\ Abs(lng1) < 600
           IN  IF swapped THEN Return(lng1, lat0.v)
               ELSE Return(lat0.v, lng1)

\* normalizeCoordinates(inputLat, inputLng) of the admin page
normalizeCoordinates(textLat, textLng) ==
  LET lat0 == IF textLat = << >> THEN NaN ELSE ParseFloat(Trim(textLat))
      lng0 == IF textLng = << >> THEN NaN ELSE ParseFloat(Trim(textLng))
  IN  IF NumberIsNaN(lat0) \/ NumberIsNaN(lng0) THEN Throw(InvalidFormat)
      ELSE IF RangeError(lat0, lng0) THEN Throw(OutOfRange)
      ELSE LET lng1 == SignCorrection(lng0.v)
               swapped == Abs(lat0.v) > 600 /\ Abs(lng1) < 600
           IN  IF swapped THEN Return(lng1, SignCorrection(lat0.v))
               ELSE Return(lat0.v, lng1)

\* ---------------------------------------------------------------- MapView
\* userLocation: null, or a LatLng
NoLocation == [set |-> FALSE, lat |-> Undef, lng |-> Undef]

LatLng(lat, lng) == [set |-> TRUE, lat |-> lat, lng |-> lng]

\* MapView: the base filter of visiblePartners
MapViewBase(p) ==
  /\ p.is_public
  /\ TypeofNumber(p.lat)
  /\ ~NumberIsNaN(p.lat)
  /\ TypeofNumber(p.lng)
  /\ ~NumberIsNaN(p.lng)

\* a._dist - b._dist > 0 of the sort comparator
DistGreater(a, b) == a._dist.k = "num" /\ b._dist.k = "num" /\ a._dist.v > b._dist.v

RECURSIVE InsertByDist_Unstable(_, _)
\* InsertByDist placing p before the elements it ties with
InsertByDist_Unstable(sorted, p) ==
  IF sorted = << >> THEN << p >>
  ELSE IF ~DistGreater(p, Head(sorted)) THEN << p >> \o sorted
  ELSE << Head(sorted) >> \o InsertByDist_Unstable(Tail(sorted), p)

RECURSIVE InsertByDist(_, _)
\* insert p after every element that does not compare greater than p
InsertByDist(sorted, p) ==
  IF sorted = << >> THEN << p >>
  ELSE IF DistGreater(Head(sorted), p) THEN << p >> \o sorted
  ELSE << Head(sorted) >> \o InsertByDist(Tail(sorted), p)

RECURSIVE SortByDist(_)
\* Array.prototype.sort((a, b) => a._dist - b._dist): a stable sort
SortByDist(ps) ==
  IF ps = << >> THEN << >>
  ELSE InsertByDist(SortByDist(SubSeq(ps, 1, Len(ps) - 1)), ps[Len(ps)])

\* .map((p) => ({ ...p, _dist: milesBetween(userLocation, p) }))
WithDist(ps, loc) ==
  [i \in 1..Len(ps) |->
     [id |-> ps[i].id, lat |-> ps[i].lat, lng |-> ps[i].lng,
      is_public |-> ps[i].is_public, _dist |-> milesBetween(loc, ps[i])]]

\* elements of the list returned without a reference point: no _dist
WithoutDist(ps) ==
  [i \in 1..Len(ps) |->
     [id |-> ps[i].id, lat |-> ps[i].lat, lng |-> ps[i].lng,
      is_public |-> ps[i].is_public, _dist |-> Undef]]

\* MapView: visiblePartners = useMemo(..., [partners, userLocation, radiusMiles])
MapViewVisiblePartners(ps, loc, radius) ==
  LET base == SelectSeq(ps, MapViewBase)
      InRadius(p) == NumLeq(p._dist, radius)
  IN  IF ~loc.set THEN WithoutDist(base)
      ELSE SortByDist(SelectSeq(WithDist(base, loc), InRadius))

\* MapView: the default of the radiusMiles prop (10 miles)
MapViewDefaultRadius == Num(100)

\* ---------------------------------------------------------------- Home
\* Home: visiblePartners = useMemo(..., [partners, userLocation, radiusMiles])
VisiblePartners(ps, loc, radius) ==
  LET InRadius(p) == NumLeq(haversineMiles(loc, p), radius)
  IN  IF ~loc.set THEN ps ELSE SelectSeq(ps, InRadius)

\* Eligible with 'none' read as "no filter": every collab passes
Eligible_NoneIsNoFilter(c, selected) ==
  IF selected = "none" THEN TRUE
  ELSE IF selected = "all" THEN TRUE
  ELSE IF selected = "active" THEN c.status = "active"
  ELSE c.id = selected

\* Eligible with the status test of 'active' left out
Eligible_StatusIgnored(c, selected) ==
  IF selected = "none" THEN FALSE
  ELSE IF selected = "all" THEN TRUE
  ELSE IF selected = "active" THEN TRUE
  ELSE c.id = selected

\* collabs.filter(...): which collabs are eligible
Eligible(c, selected) ==
  IF selected = "none" THEN FALSE
  ELSE IF selected = "all" THEN TRUE
  ELSE IF selected = "active" THEN c.status = "active"
  ELSE c.id = selected

\* byCollab.get(cid) || []: the partner ids of the rows of cid, in row order
ByCollab(ms, cid) ==
  LET OfCollab(m) == m.collab_id = cid
      rows == SelectSeq(ms, OfCollab)
  IN  [i \in 1..Len(rows) |-> rows[i].partner_id]

\* partnerMap.get(pid): the last entry of the list with that id
PartnerMapGet(vis, pid) ==
  LET i == CHOOSE k \in 1..Len(vis) :
             vis[k].id = pid /\ \A l \in (k + 1)..Len(vis) : vis[l].id # pid
  IN  vis[i]

\* one element of edges.push({...})
MakeEdge(c, A, B) ==
  [id |-> c.id \o ":" \o A.id \o "-" \o B.id,
   collabId |-> c.id,
   color |-> IF c.color = "" THEN "#ef4444" ELSE c.color,
   a |-> [id |-> A.id, lat |-> A.lat, lng |-> A.lng],
   b |-> [id |-> B.id, lat |-> B.lat, lng |-> B.lng],
   status |-> c.status]

RECURSIVE PairsFrom(_, _, _)
\* for (i ...) for (j = i + 1 ...): the index pairs in loop order
PairsFrom(i, j, n) ==
  IF i >= n THEN << >>
  ELSE IF j > n THEN PairsFrom(i + 1, i + 2, n)
  ELSE << << i, j >> >> \o PairsFrom(i, j + 1, n)

\* ids of one collab restricted to the visible partners
RestrictedIds(ms, vis, cid) ==
  LET InMap(pid) == pid \in Ids(vis)
  IN  SelectSeq(ByCollab(ms, cid), InMap)

\* the edges one eligible collab pushes
EdgesOfCollab(c, ms, vis) ==
  LET ids == RestrictedIds(ms, vis, c.id)
      pairs == PairsFrom(1, 2, Len(ids))
  IN  IF Len(ids) < 2 THEN << >>
      ELSE [k \in 1..Len(pairs) |->
              MakeEdge(c, PartnerMapGet(vis, ids[pairs[k][1]]),
                          PartnerMapGet(vis, ids[pairs[k][2]]))]

RECURSIVE EdgesOfCollabs(_, _, _)
EdgesOfCollabs(cs, ms, vis) ==
  IF cs = << >> THEN << >>
  ELSE EdgesOfCollab(Head(cs), ms, vis) \o EdgesOfCollabs(Tail(cs), ms, vis)

\* CollabEdges with partnerMap built from all partners, not the visible ones
CollabEdges_AllPartners(show, ms, cs, selected, vis) ==
  LET IsEligible(c) == Eligible(c, selected)
      eligibleCollabs == SelectSeq(cs, IsEligible)
  IN  IF ~show \/ Len(ms) = 0 \/ Len(cs) = 0 THEN << >>
      ELSE IF Len(eligibleCollabs) = 0 THEN << >>
      ELSE EdgesOfCollabs(eligibleCollabs, ms, partners)

\* Home: collabEdges = useMemo(..., [showCollabs, members, collabs,
\* selectedCollabId, visiblePartners])
CollabEdges(show, ms, cs, selected, vis) ==
  LET IsEligible(c) == Eligible(c, selected)
      eligibleCollabs == SelectSeq(cs, IsEligible)
  IN  IF ~show \/ Len(ms) = 0 \/ Len(cs) = 0 THEN << >>
      ELSE IF Len(eligibleCollabs) = 0 THEN << >>
      ELSE EdgesOfCollabs(eligibleCollabs, ms, vis)

\* ---------------------------------------------------------------- idle parts
\* no distance has been computed
NotComputed == [km |-> NaN, miles |-> NaN, clamped |-> NaN]

DistanceIdle ==
  /\ pointA = NoLocation
  /\ pointB = NoLocation
  /\ distance = NotComputed

\* useState of the partner form: every field empty
EmptyForm == [lat |-> << >>, lng |-> << >>, address |-> ""]

\* no insert or update was issued, message is what alert() was given
NoWrite(message) == [issued |-> FALSE, lat |-> NaN, lng |-> NaN, alert |-> message]

\* the Admin page is not open
AdminIdle ==
  /\ form = EmptyForm
  /\ editingId = ""
  /\ table = << >>
  /\ editingCollabId = ""
  /\ selectedPartnerIds = << >>
  /\ memberTable = {}
  /\ lastSave = NoWrite("")

\* ---------------------------------------------------------------- inputs
Partner(id, lat, lng, pub) == [id |-> id, lat |-> lat, lng |-> lng, is_public |-> pub]

Collab(id, status, color) == [id |-> id, status |-> status, color |-> color]

CollabMember(cid, pid) == [collab_id |-> cid, partner_id |-> pid]

PartnerIds == {"A", "B", "C"}

CollabIds == {"c1", "c2"}

\* downtown Dayton, tenths of a degree
DaytonLat == 398

DaytonLng == -842

\* three valid public partners, 0, 6.9 and 13.8 miles north of the centre
ValidPartners ==
  { Partner("A", Num(DaytonLat), Num(DaytonLng), TRUE),
    Partner("B", Num(DaytonLat + 1), Num(DaytonLng), TRUE),
    Partner("C", Num(DaytonLat + 2), Num(DaytonLng), TRUE) }

CollabChoices ==
  { Collab("c1", "active", ""), Collab("c1", "paused", ""),
    Collab("c2", "ended", "#2563eb") }

MemberRows == {CollabMember(c, p) : c \in CollabIds, p \in PartnerIds}

SelectedChoices == {"all", "active", "none"} \cup CollabIds

\* the lists over S in which no id occurs twice
PartnerLists(S) == {q \in SeqsUpTo(S, Cardinality(PartnerIds)) : DistinctIds(q)}

CollabLists == {q \in SeqsUpTo(CollabChoices, Cardinality(CollabIds)) : DistinctIds(q)}

MemberLists == SeqsUpTo(MemberRows, MaxMembers)

\* ---------------------------------------------------------------- edge builder
\* the edge builder on its own: any inputs, then one evaluation
InitEdges ==
  /\ DistanceIdle
  /\ AdminIdle
  /\ address = ""
  /\ busy = FALSE
  /\ pending = {}
  /\ alerted = ""
  /\ invocations = << >>
  /\ inputLat = << >>
  /\ inputLng = << >>
  /\ norm = NotCalled
  /\ phase = "edges-input"
  /\ showCollabs \in BOOLEAN
  /\ selectedCollabId \in SelectedChoices
  /\ collabs \in CollabLists
  /\ members \in MemberLists
  /\ visiblePartners \in PartnerLists(ValidPartners)
  /\ partners = visiblePartners
  /\ userLocation = NoLocation
  /\ radiusMiles = Num(50)
  /\ focusPartnerId = ""
  /\ collabEdges = << >>
  /\ mapVisiblePartners = << >>

BuildEdges ==
  /\ UNCHANGED << normalizerVars, filterBarVars, distanceVars, adminVars >>
  /\ phase = "edges-input"
  /\ phase' = "edges-done"
  /\ collabEdges' = CollabEdges(showCollabs, members, collabs, selectedCollabId,
                                visiblePartners)
  /\ UNCHANGED << partners, collabs, members, userLocation, radiusMiles,
                  focusPartnerId, showCollabs, selectedCollabId,
                  visiblePartners, mapVisiblePartners >>

NextEdges == BuildEdges

SpecEdges == InitEdges /\ [][NextEdges]_vars

\* ---------------------------------------------------------------- claims
EdgeSet == Range(collabEdges)

\* C1: with selectedCollabId = 'none' the computed edge list is empty, for
\* every choice of collabs, members, visible partners and showCollabs.
C1_NoneSelectedEmpty ==
  (phase = "edges-done" /\ selectedCollabId = "none") => collabEdges = << >>

C1_Witness ==
  /\ phase = "edges-done"
  /\ selectedCollabId = "none"
  /\ showCollabs
  /\ \E c \in Range(collabs) : Len(RestrictedIds(members, visiblePartners, c.id)) >= 2

\* the distinct visible members of collab cid
VisibleMembers(cid) == Range(RestrictedIds(members, visiblePartners, cid))

\* the positions of the edge list that belong to collab cid
EdgeIndicesOf(cid) == {k \in 1..Len(collabEdges) : collabEdges[k].collabId = cid}

\* C2: with the lines shown, every eligible collab with n >= 2 distinct
\* visible members has exactly one edge for every unordered pair of them and
\* nothing else, n * (n - 1) / 2 edges, for any rows, repeated rows included.
C2_OneEdgePerPair ==
  (phase = "edges-done" /\ showCollabs) =>
    \A c \in Range(collabs) :
      LET M == VisibleMembers(c.id)
          n == Cardinality(M)
          E == EdgeIndicesOf(c.id)
      IN  (Eligible(c, selectedCollabId) /\ n >= 2) =>
            /\ Cardinality(E) * 2 = n * (n - 1)
            /\ \A k \in E :
                 /\ collabEdges[k].a.id # collabEdges[k].b.id
                 /\ {collabEdges[k].a.id, collabEdges[k].b.id} \subseteq M
            /\ \A x, y \in M :
                 x # y =>
                   Cardinality({k \in E : {collabEdges[k].a.id, collabEdges[k].b.id}
                                            = {x, y}}) = 1

RECURSIVE SeqPermutations(_)
\* every reordering of the sequence q
SeqPermutations(q) ==
  IF q = << >> THEN {<< >>}
  ELSE UNION { {<< q[i] >> \o r :
                  r \in SeqPermutations(SubSeq(q, 1, i - 1) \o SubSeq(q, i + 1, Len(q)))}
               : i \in 1..Len(q) }

\* C3: the identifier of the edge joining A and B in collab c is the same
\* whichever order the membership rows and the partner list present them.
C3_CanonicalEdgeId ==
  phase = "edges-done" =>
    \A ms \in SeqPermutations(members), vis \in SeqPermutations(visiblePartners) :
      \A e \in EdgeSet,
         f \in Range(CollabEdges(showCollabs, ms, collabs, selectedCollabId, vis)) :
        (e.collabId = f.collabId /\ {e.a.id, e.b.id} = {f.a.id, f.b.id}) => e.id = f.id

\* C6: a collab with fewer than 2 distinct visible members has no edge,
\* whatever its status and whatever the eligibility mode.
C6_FewerThanTwoNoEdges ==
  phase = "edges-done" =>
    \A c \in Range(collabs) :
      Cardinality(VisibleMembers(c.id)) < 2 => EdgeIndicesOf(c.id) = {}

StatusOf(cid) == {c.status : c \in {d \in Range(collabs) : d.id = cid}}

\* C7: under 'active' every edge belongs to an active collab, under a
\* specific id every edge has that collabId, and under 'all' every collab
\* with two visible member rows has an edge whatever its status.
C7_EligibilityMode ==
  phase = "edges-done" =>
    /\ selectedCollabId = "active" =>
         \A e \in EdgeSet : e.status = "active" /\ StatusOf(e.collabId) = {"active"}
    /\ selectedCollabId \in CollabIds =>
         \A e \in EdgeSet : e.collabId = selectedCollabId
    /\ (selectedCollabId = "all" /\ showCollabs) =>
         \A c \in Range(collabs) :
           Len(RestrictedIds(members, visiblePartners, c.id)) >= 2 =>
             \E e \in EdgeSet : e.collabId = c.id /\ e.status = c.status

\* 'active' is selected while a collab that is not active has two visible
\* member rows, and an active one has its edge drawn
C7_Witness ==
  /\ phase = "edges-done"
  /\ showCollabs
  /\ selectedCollabId = "active"
  /\ collabEdges = << >>
  /\ \E c \in Range(collabs) :
       c.status # "active" /\ Cardinality(VisibleMembers(c.id)) >= 2

\* ---------------------------------------------------------------- MapView alone
\* coordinates a partner row can carry: three valid points 0, 6.9 and 6.9
\* miles from the centre, NaN, Infinity, a non-number, and a longitude
\* outside [-180, 180] (the centre, one turn further west)
CoordChoices ==
  { << Num(DaytonLat), Num(DaytonLng) >>,
    << Num(DaytonLat + 1), Num(DaytonLng) >>,
    << Num(DaytonLat - 1), Num(DaytonLng) >>,
    << NaN, Num(DaytonLng) >>,
    << Num(DaytonLat), Infinity >>,
    << Undef, Num(DaytonLng) >>,
    << Num(DaytonLat), Num(DaytonLng - 3600) >> }

PartnerChoices ==
  {Partner(id, c[1], c[2], TRUE) : id \in PartnerIds, c \in CoordChoices}
    \cup {Partner(id, Num(DaytonLat), Num(DaytonLng), FALSE) : id \in PartnerIds}

LocationChoices == {NoLocation, LatLng(Num(DaytonLat), Num(DaytonLng))}

\* radii in tenths of a mile: 0, 6.9 and 10 miles
RadiusChoices == {Num(0), Num(69), Num(100)}

InitMapView ==
  /\ DistanceIdle
  /\ AdminIdle
  /\ address = ""
  /\ busy = FALSE
  /\ pending = {}
  /\ alerted = ""
  /\ invocations = << >>
  /\ inputLat = << >>
  /\ inputLng = << >>
  /\ norm = NotCalled
  /\ phase = "map-input"
  /\ partners \in PartnerLists(PartnerChoices)
  /\ userLocation \in LocationChoices
  /\ radiusMiles \in RadiusChoices
  /\ collabs = << >>
  /\ members = << >>
  /\ focusPartnerId = ""
  /\ showCollabs = FALSE
  /\ selectedCollabId = "active"
  /\ visiblePartners = << >>
  /\ collabEdges = << >>
  /\ mapVisiblePartners = << >>

RenderMapView ==
  /\ UNCHANGED << normalizerVars, filterBarVars, distanceVars, adminVars >>
  /\ phase = "map-input"
  /\ phase' = "map-done"
  /\ mapVisiblePartners' = MapViewVisiblePartners(partners, userLocation, radiusMiles)
  /\ UNCHANGED << partners, collabs, members, userLocation, radiusMiles,
                  focusPartnerId, showCollabs, selectedCollabId,
                  visiblePartners, collabEdges >>

NextMapView == RenderMapView

SpecMapView == InitMapView /\ [][NextMapView]_vars

\* a GeoPoint: finite, latitude in [-90, 90], longitude in [-180, 180]
ValidCoordinates(p) ==
  /\ IsFinite(p.lat)
  /\ IsFinite(p.lng)
  /\ Abs(p.lat.v) <= 900
  /\ Abs(p.lng.v) <= 1800

\* C8: the visible list never holds a partner that is not public or whose
\* coordinates are not finite or are out of range, with or without a
\* reference point.
C8_OnlyValidPublicVisible ==
  phase = "map-done" =>
    \A p \in Range(mapVisiblePartners) : p.is_public /\ ValidCoordinates(p)

\* the input rows a result row can come from
SourceRows(id) == {p \in Range(partners) : p.id = id}

IndexOf(ps, id) == CHOOSE i \in 1..Len(ps) : ps[i].id = id

\* C10: with a reference point the visible list is in ascending distance
\* and partners at equal distance keep their relative input order.
C10_SortedStable ==
  (phase = "map-done" /\ userLocation.set) =>
    \A i, j \in 1..Len(mapVisiblePartners) :
      i < j =>
        LET a == mapVisiblePartners[i]
            b == mapVisiblePartners[j]
        IN  /\ a._dist.k = "num" /\ b._dist.k = "num"
            /\ a._dist.v <= b._dist.v
            /\ a._dist.v = b._dist.v =>
                 IndexOf(partners, a.id) < IndexOf(partners, b.id)

\* three partners are listed, the nearest was not first in the input and two
\* of them tie
C10_Witness ==
  /\ phase = "map-done"
  /\ userLocation.set
  /\ Len(mapVisiblePartners) = 3
  /\ mapVisiblePartners[1].id # partners[1].id
  /\ \E i \in 1..2 : mapVisiblePartners[i]._dist = mapVisiblePartners[i + 1]._dist

\* the ids of a list, in list order
IdSeq(ps) == [i \in 1..Len(ps) |-> ps[i].id]

PublicValid(p) == p.is_public /\ ValidCoordinates(p)

\* C11: without a reference point the visible list is the valid public
\* partners in their input order, no element carries a distance, and every
\* radius gives the same list.
C11_NoReferenceInputOrder ==
  (phase = "map-done" /\ ~userLocation.set) =>
    /\ IdSeq(mapVisiblePartners) = IdSeq(SelectSeq(partners, PublicValid))
    /\ \A i \in 1..Len(mapVisiblePartners) : mapVisiblePartners[i]._dist = Undef
    /\ \A r \in RadiusChoices :
         MapViewVisiblePartners(partners, userLocation, r) = mapVisiblePartners

\* ---------------------------------------------------------------- normalizer alone
\* what an editor may type into a coordinate field: decimal degrees with and
\* without sign or white space, the boundary values and the first values
\* beyond them, an empty field, text that is no number, a number followed by
\* a letter, and Infinity
CoordTexts ==
  { << "4", "0", ".", "0" >>,
    << " ", "4", "0", ".", "0", " " >>,
    << "-", "4", "0", ".", "0" >>,
    << "5", "5", ".", "0" >>,
    << "2", "0", ".", "0" >>,
    << "8", "4", ".", "2" >>,
    << "-", "8", "4", ".", "2" >>,
    << "-", "1", "0", "0", ".", "0" >>,
    << "0" >>,
    << "9", "0" >>,
    << "-", "9", "0" >>,
    << "9", "0", ".", "1" >>,
    << "1", "8", "0" >>,
    << "-", "1", "8", "0" >>,
    << "1", "8", "0", ".", "1" >>,
    << >>,
    << "a", "b", "c" >>,
    << "4", "0", ".", "0", "N" >>,
    << "I", "n", "f", "i", "n", "i", "t", "y" >> }

\* the normalizer on its own: any two texts, then one call
InitNormalize ==
  /\ DistanceIdle
  /\ AdminIdle
  /\ address = ""
  /\ busy = FALSE
  /\ pending = {}
  /\ alerted = ""
  /\ invocations = << >>
  /\ phase = "norm-input"
  /\ inputLat \in CoordTexts
  /\ inputLng \in CoordTexts
  /\ norm = NotCalled
  /\ partners = << >>
  /\ collabs = << >>
  /\ members = << >>
  /\ userLocation = NoLocation
  /\ radiusMiles = Num(50)
  /\ focusPartnerId = ""
  /\ showCollabs = FALSE
  /\ selectedCollabId = "active"
  /\ visiblePartners = << >>
  /\ collabEdges = << >>
  /\ mapVisiblePartners = << >>

Normalize ==
  /\ phase = "norm-input"
  /\ phase' = "norm-done"
  /\ norm' = normalizeCoordinates(inputLat, inputLng)
  /\ UNCHANGED << inputLat, inputLng, filterBarVars, distanceVars, adminVars >>
  /\ UNCHANGED << partners, collabs, members, userLocation, radiusMiles,
                  focusPartnerId, showCollabs, selectedCollabId,
                  visiblePartners, collabEdges, mapVisiblePartners >>

NextNormalize == Normalize

SpecNormalize == InitNormalize /\ [][NextNormalize]_vars

\* the two fields as numbers
ParsedLat == ParseFloat(Trim(inputLat))

ParsedLng == ParseFloat(Trim(inputLng))

NotANumber == NumberIsNaN(ParsedLat) \/ NumberIsNaN(ParsedLng)

BeyondRange ==
  \/ ParsedLat.k = "inf" \/ ParsedLng.k = "inf"
  \/ Abs(ParsedLat.v) > 900 \/ Abs(ParsedLng.v) > 1800

\* C12: the call fails with InvalidFormat exactly when a field is not a
\* number, with OutOfRange exactly when both are numbers and |lat| > 90 or
\* |lng| > 180, and returns a result for every other input, |lat| = 90 and
\* |lng| = 180 included.
C12_FailsExactlyOnFormatOrRange ==
  phase = "norm-done" =>
    /\ norm.error = InvalidFormat <=> NotANumber
    /\ norm.error = OutOfRange <=> (~NotANumber /\ BeyondRange)
    /\ norm.ok <=> (~NotANumber /\ ~BeyondRange)
    /\ norm.ok => norm.error = ""
    /\ (inputLat = << >> \/ inputLng = << >>) => norm.error = InvalidFormat

\* both fields hold a boundary value and the call returned
C12_Witness ==
  /\ phase = "norm-done"
  /\ norm.ok
  /\ Abs(ParsedLat.v) = 900
  /\ Abs(ParsedLng.v) = 1800

\* the swap condition, on the parsed input
SwapCase == ~NotANumber /\ ~BeyondRange /\ Abs(ParsedLat.v) > 600 /\ Abs(ParsedLng.v) < 600

\* C13: in the swap case the output is the two input values exchanged, the
\* longitude made negative: ("-84.2", "40.0") gives (40.0, -84.2).
C13_SwapThenSignCorrect ==
  (phase = "norm-done" /\ SwapCase) =>
    /\ norm.ok
    /\ norm.lat = ParsedLng
    /\ norm.lng = Num(0 - Abs(ParsedLat.v))

\* C14: for a valid input outside the swap case the output latitude is the
\* input latitude and the output longitude is -|input longitude|.
C14_SignCorrection ==
  (phase = "norm-done" /\ ~NotANumber /\ ~BeyondRange /\ ~SwapCase) =>
    /\ norm.ok
    /\ norm.lat = ParsedLat
    /\ norm.lng = Num(0 - Abs(ParsedLng.v))

\* ("40.0", "84.2") was given and (40.0, -84.2) returned
C14_Witness ==
  /\ phase = "norm-done"
  /\ ParsedLat = Num(400)
  /\ ParsedLng = Num(842)
  /\ norm.ok
  /\ norm.lat = Num(400)
  /\ norm.lng = Num(-842)

\* the offsets of the normalized point from the regional centre exceed 10
\* degrees (in 10^-4 degrees)
LatOffsetFar == Abs(1000 * norm.lat.v - 397589) > 100000

LngOffsetFar == Abs(1000 * norm.lng.v + 841916) > 100000

\* C15: the flag is set exactly when both offsets exceed 10 degrees, it is
\* not set when only one does, and a far point is still returned.
C15_FarFlagNeedsBothOffsets ==
  (phase = "norm-done" /\ norm.ok) =>
    norm.obviouslyFar <=> (LatOffsetFar /\ LngOffsetFar)

\* ---------------------------------------------------------------- Home
\* name order of the partners table
NameOrder == << "A", "B", "C" >>

\* what the partners query returns: public rows in name order, the first two
\* or more rows of the table
HomePartnerLists ==
  {q \in PartnerLists(ValidPartners) :
     Len(q) >= 2 /\ \A i \in 1..Len(q) : q[i].id = NameOrder[i]}

RowLess(m, n) ==
  \/ m.collab_id = "c1" /\ n.collab_id = "c2"
  \/ m.collab_id = n.collab_id /\ m.partner_id = "A" /\ n.partner_id \in {"B", "C"}
  \/ m.collab_id = n.collab_id /\ m.partner_id = "B" /\ n.partner_id = "C"

\* what the collab_members query returns: rows of the table in table order
HomeMemberLists ==
  {q \in MemberLists : \A i, j \in 1..Len(q) : i < j => RowLess(q[i], q[j])}

\* the radius slider, 1..25 miles: 5 and 10 miles
SliderChoices == {Num(50), Num(100)}

\* Render with visiblePartners missing from the dependencies of collabEdges:
\* the edges are built from the visible list of the render before
Render_MissingDependency ==
  /\ visiblePartners' = VisiblePartners(partners', userLocation', radiusMiles')
  /\ collabEdges' = CollabEdges(showCollabs', members', collabs', selectedCollabId',
                                visiblePartners)
  /\ mapVisiblePartners' =
       MapViewVisiblePartners(visiblePartners', userLocation',
                              IF userLocation'.set THEN radiusMiles'
                              ELSE MapViewDefaultRadius)

\* the three memoised values of one render of Home and of the MapView in it
Render ==
  /\ visiblePartners' = VisiblePartners(partners', userLocation', radiusMiles')
  /\ collabEdges' = CollabEdges(showCollabs', members', collabs', selectedCollabId',
                                visiblePartners')
  /\ mapVisiblePartners' =
       MapViewVisiblePartners(visiblePartners', userLocation',
                              IF userLocation'.set THEN radiusMiles'
                              ELSE MapViewDefaultRadius)

\* Home after its first render, the fetch effect pending
Init ==
  /\ DistanceIdle
  /\ AdminIdle
  /\ address = ""
  /\ busy = FALSE
  /\ pending = {}
  /\ alerted = ""
  /\ invocations = << >>
  /\ inputLat = << >>
  /\ inputLng = << >>
  /\ norm = NotCalled
  /\ phase = "home-loading"
  /\ partners = << >>
  /\ collabs = << >>
  /\ members = << >>
  /\ userLocation = NoLocation
  /\ radiusMiles = Num(50)
  /\ focusPartnerId = ""
  /\ showCollabs = FALSE
  /\ selectedCollabId = "active"
  /\ visiblePartners = << >>
  /\ collabEdges = << >>
  /\ mapVisiblePartners = << >>

InHome == phase \in {"home-loading", "home-loaded"}

\* loadFromSupabase: the three queries, then setPartners, setCollabs,
\* setMembers up to the first error
LoadFromSupabase ==
  /\ UNCHANGED << normalizerVars, filterBarVars, distanceVars, adminVars >>
  /\ phase = "home-loading"
  /\ phase' = "home-loaded"
  /\ \E ps \in HomePartnerLists, cs \in CollabLists, ms \in HomeMemberLists,
        outcome \in {"ok", "pErr", "cErr", "mErr"} :
       /\ partners' = IF outcome = "pErr" THEN partners ELSE ps
       /\ collabs' = IF outcome \in {"pErr", "cErr"} THEN collabs ELSE cs
       /\ members' = IF outcome = "ok" THEN ms ELSE members
  /\ UNCHANGED << userLocation, radiusMiles, focusPartnerId, showCollabs,
                  selectedCollabId >>
  /\ Render

\* loadFromLocal: partners only, no collabs and no members
LoadFromLocal ==
  /\ UNCHANGED << normalizerVars, filterBarVars, distanceVars, adminVars >>
  /\ phase = "home-loading"
  /\ phase' = "home-loaded"
  /\ partners' \in HomePartnerLists
  /\ collabs' = << >>
  /\ members' = << >>
  /\ UNCHANGED << userLocation, radiusMiles, focusPartnerId, showCollabs,
                  selectedCollabId >>
  /\ Render

\* onLocation={(loc) => setUserLocation(loc)}
OnLocation ==
  /\ UNCHANGED << normalizerVars, filterBarVars, distanceVars, adminVars >>
  /\ InHome
  /\ \E loc \in LocationChoices : loc.set /\ userLocation' = loc
  /\ UNCHANGED << phase, partners, collabs, members, radiusMiles,
                  focusPartnerId, showCollabs, selectedCollabId >>
  /\ Render

\* OnClear putting the radius back to its initial 5 miles as well
OnClear_ResetsRadius ==
  /\ UNCHANGED << normalizerVars, filterBarVars, distanceVars, adminVars >>
  /\ InHome
  /\ userLocation' = NoLocation
  /\ focusPartnerId' = ""
  /\ radiusMiles' = Num(50)
  /\ UNCHANGED << phase, partners, collabs, members, showCollabs, selectedCollabId >>
  /\ Render

\* onClear={() => { setUserLocation(null); setFocusPartnerId(null); }}
OnClear ==
  /\ UNCHANGED << normalizerVars, filterBarVars, distanceVars, adminVars >>
  /\ InHome
  /\ userLocation' = NoLocation
  /\ focusPartnerId' = ""
  /\ UNCHANGED << phase, partners, collabs, members, radiusMiles,
                  showCollabs, selectedCollabId >>
  /\ Render

\* the radius slider: setRadiusMiles(parseInt(e.target.value, 10))
SetRadiusMiles ==
  /\ UNCHANGED << normalizerVars, filterBarVars, distanceVars, adminVars >>
  /\ InHome
  /\ radiusMiles' \in SliderChoices
  /\ UNCHANGED << phase, partners, collabs, members, userLocation,
                  focusPartnerId, showCollabs, selectedCollabId >>
  /\ Render

\* the checkbox: setShowCollabs(e.target.checked)
SetShowCollabs ==
  /\ UNCHANGED << normalizerVars, filterBarVars, distanceVars, adminVars >>
  /\ InHome
  /\ showCollabs' = ~showCollabs
  /\ UNCHANGED << phase, partners, collabs, members, userLocation,
                  radiusMiles, focusPartnerId, selectedCollabId >>
  /\ Render

\* the select: 'active', 'all', 'none' or the id of a loaded collab
SetSelectedCollabId ==
  /\ UNCHANGED << normalizerVars, filterBarVars, distanceVars, adminVars >>
  /\ InHome
  /\ selectedCollabId' \in {"active", "all", "none"} \cup Ids(collabs)
  /\ UNCHANGED << phase, partners, collabs, members, userLocation,
                  radiusMiles, focusPartnerId, showCollabs >>
  /\ Render

\* focusPartner(id), from the Focus button of a listed partner
FocusPartner ==
  /\ UNCHANGED << normalizerVars, filterBarVars, distanceVars, adminVars >>
  /\ InHome
  /\ focusPartnerId' \in Ids(visiblePartners)
  /\ UNCHANGED << phase, partners, collabs, members, userLocation,
                  radiusMiles, showCollabs, selectedCollabId >>
  /\ Render

Next ==
  \/ LoadFromSupabase
  \/ LoadFromLocal
  \/ OnLocation
  \/ OnClear
  \/ SetRadiusMiles
  \/ SetShowCollabs
  \/ SetSelectedCollabId
  \/ FocusPartner

Spec == Init /\ [][Next]_vars

\* C5: after any sequence of user events both endpoints of every edge are
\* partners of the current visible list, so a partner the radius filter
\* removed has no edge.
C5_EdgeEndpointsVisible ==
  InHome =>
    \A e \in EdgeSet :
      {e.a.id, e.b.id} \subseteq Ids(VisiblePartners(partners, userLocation, radiusMiles))

\* lines are drawn while the radius filter has removed a partner that is a
\* member of a collab
C5_Witness ==
  /\ InHome
  /\ userLocation.set
  /\ collabEdges # << >>
  /\ \E m \in Range(members) :
       m.partner_id \in Ids(partners) /\ m.partner_id \notin Ids(visiblePartners)

\* ---------------------------------------------------------------- index page
\* the most clicks on Search and on Use my location in one session
MaxClicks == 2

AddressNotFound == "Address not found. Try refining it."

GeocodingFailed == "Geocoding failed. Try again."

NotSupported == "Geolocation not supported in this browser."

LocationBlocked == "Location access is blocked for this site."

NoApproximate == "Could not determine an approximate location."

\* String(undefined), what parseFloat reads of a field the candidate lacks
UndefinedText == << "u", "n", "d", "e", "f", "i", "n", "e", "d" >>

NoResponse == [shape |-> "none", lat |-> << >>, lon |-> << >>]

\* what the geocoding request can end in: fetch or res.json() rejects, the
\* body is not an array, the array is empty, the first candidate has lat and
\* lon, the first candidate has neither
GeocodeResponses ==
  { [shape |-> "throw", lat |-> << >>, lon |-> << >>],
    [shape |-> "notList", lat |-> << >>, lon |-> << >>],
    [shape |-> "emptyList", lat |-> << >>, lon |-> << >>],
    [shape |-> "list", lat |-> << "3", "9", ".", "8" >>,
                       lon |-> << "-", "8", "4", ".", "2" >>],
    [shape |-> "list", lat |-> UndefinedText, lon |-> UndefinedText] }

\* pos.coords of the device: 39.9, -84.2
DevicePosition == LatLng(Num(399), Num(-842))

\* data.latitude, data.longitude of the IP service: 40.0, -83.0
IpPosition == LatLng(Num(400), Num(-830))

Request(kind, inv) == [kind |-> kind, inv |-> inv]

\* the history record of a click that has issued nothing yet
NewInvocation(kind) ==
  [kind |-> kind, geocode |-> 0, device |-> 0, ip |-> 0, failed |-> FALSE,
   confirmed |-> FALSE, declined |-> FALSE, stale |-> FALSE,
   response |-> NoResponse]

\* history: the requests of reqs are counted for their invocations
Issued(invs, reqs) ==
  [i \in 1..Len(invs) |->
     [invs[i] EXCEPT
        !.geocode = @ + Cardinality({r \in reqs : r.inv = i /\ r.kind = "geocode"}),
        !.device = @ + Cardinality({r \in reqs : r.inv = i /\ r.kind = "device"}),
        !.ip = @ + Cardinality({r \in reqs : r.inv = i /\ r.kind = "ip"})]]

\* history: every invocation with an operation in flight has been overtaken
\* by a newer action of the user
Overtaken(invs) ==
  [i \in 1..Len(invs) |->
     IF \E r \in pending : r.inv = i THEN [invs[i] EXCEPT !.stale = TRUE]
     ELSE invs[i]]

\* index page: <MapView partners={partners} userLocation={userLocation}
\* radiusMiles={radiusMiles} />
IndexRender ==
  mapVisiblePartners' = MapViewVisiblePartners(partners', userLocation', radiusMiles')

InIndex == phase \in {"index-loading", "index-loaded"}

\* what no action of the index page touches
IndexUnused ==
  << collabs, members, focusPartnerId, showCollabs, selectedCollabId,
     visiblePartners, collabEdges, normalizerVars, distanceVars, adminVars >>

\* index page after its first render, the fetch effect pending
InitIndex ==
  /\ DistanceIdle
  /\ AdminIdle
  /\ phase = "index-loading"
  /\ partners = << >>
  /\ userLocation = NoLocation
  /\ radiusMiles = Num(100)
  /\ address = ""
  /\ busy = FALSE
  /\ pending = {}
  /\ alerted = ""
  /\ invocations = << >>
  /\ collabs = << >>
  /\ members = << >>
  /\ focusPartnerId = ""
  /\ showCollabs = FALSE
  /\ selectedCollabId = "active"
  /\ visiblePartners = << >>
  /\ collabEdges = << >>
  /\ mapVisiblePartners = << >>
  /\ inputLat = << >>
  /\ inputLng = << >>
  /\ norm = NotCalled

\* the fetch effect: setPartners(rows), or setPartners([]) on an error
IndexLoad ==
  /\ phase = "index-loading"
  /\ phase' = "index-loaded"
  /\ partners' \in {<< >>} \cup {q \in HomePartnerLists : Len(q) = 3}
  /\ UNCHANGED << userLocation, radiusMiles, filterBarVars, IndexUnused >>
  /\ IndexRender

\* onChange of the address field
SetAddress ==
  /\ InIndex
  /\ address' \in {"", "1 Main St"} \ {address}
  /\ UNCHANGED << phase, partners, userLocation, radiusMiles, busy, pending,
                  alerted, invocations, mapVisiblePartners, IndexUnused >>

\* the radius select: setRadiusMiles(parseInt(e.target.value, 10))
IndexSetRadiusMiles ==
  /\ InIndex
  /\ radiusMiles' \in {Num(50), Num(100)} \ {radiusMiles}
  /\ UNCHANGED << phase, partners, userLocation, filterBarVars, IndexUnused >>
  /\ IndexRender

\* onClear={() => setUserLocation(null)}
IndexOnClear ==
  /\ InIndex
  /\ userLocation' = NoLocation
  /\ invocations' = Overtaken(invocations)
  /\ UNCHANGED << phase, partners, radiusMiles, address, busy, pending,
                  alerted, IndexUnused >>
  /\ IndexRender

\* geocode(): the click on Search, up to the await of fetch
Geocode ==
  /\ InIndex
  /\ ~busy
  /\ Len(invocations) < MaxClicks
  /\ LET inv == Len(invocations) + 1
         reqs == IF address = "" THEN {} ELSE {Request("geocode", inv)}
         older == IF address = "" THEN invocations ELSE Overtaken(invocations)
     IN  /\ busy' = (address # "")
         /\ pending' = pending \cup reqs
         /\ invocations' = Issued(Append(older, NewInvocation("geocode")), reqs)
  /\ UNCHANGED << phase, partners, userLocation, radiusMiles, address, alerted,
                  mapVisiblePartners, IndexUnused >>

\* CatchGeocode issuing the request again
CatchGeocode_Retry(r) == {r}

\* catch { alert('Geocoding failed. Try again.') }: the requests it issues
CatchGeocode(r) == {}

\* geocode(): from the await of fetch to the end of finally
GeocodeResolve ==
  /\ InIndex
  /\ \E r \in pending, resp \in GeocodeResponses :
       /\ r.kind = "geocode"
       /\ LET again == IF resp.shape = "throw" THEN CatchGeocode(r) ELSE {}
          IN  /\ userLocation' =
                   IF resp.shape = "list"
                   THEN LatLng(ParseFloat(resp.lat), ParseFloat(resp.lon))
                   ELSE userLocation
              /\ alerted' =
                   IF resp.shape = "throw" THEN GeocodingFailed
                   ELSE IF resp.shape = "list" THEN alerted
                   ELSE AddressNotFound
              /\ pending' = (pending \ {r}) \cup again
              /\ invocations' =
                   Issued([invocations EXCEPT ![r.inv].response = resp], again)
  /\ busy' = FALSE
  /\ UNCHANGED << phase, partners, radiusMiles, address, IndexUnused >>
  /\ IndexRender

\* useMyLocation(): the click on Use my location, up to its first await or
\* to the call of getCurrentPosition
UseMyLocation ==
  /\ InIndex
  /\ ~busy
  /\ Len(invocations) < MaxClicks
  /\ \E browser \in {"noGeolocation", "permissions", "noPermissions"} :
       LET inv == Len(invocations) + 1
           reqs == IF browser = "permissions" THEN {Request("permission", inv)}
                   ELSE IF browser = "noPermissions" THEN {Request("device", inv)}
                   ELSE {}
           older == IF reqs = {} THEN invocations ELSE Overtaken(invocations)
       IN  /\ busy' = (reqs # {})
           /\ alerted' = IF reqs = {} THEN NotSupported ELSE alerted
           /\ pending' = pending \cup reqs
           /\ invocations' = Issued(Append(older, NewInvocation("device")), reqs)
  /\ UNCHANGED << phase, partners, userLocation, radiusMiles, address,
                  mapVisiblePartners, IndexUnused >>

\* useMyLocation(): from the await of permissions.query to the call of
\* getCurrentPosition; a query that rejects is caught and ignored
PermissionResolve ==
  /\ InIndex
  /\ \E r \in pending, state \in {"denied", "granted", "rejected"} :
       /\ r.kind = "permission"
       /\ LET reqs == IF state = "denied" THEN {} ELSE {Request("device", r.inv)}
          IN  /\ busy' = IF state = "denied" THEN FALSE ELSE busy
              /\ alerted' = IF state = "denied" THEN LocationBlocked ELSE alerted
              /\ pending' = (pending \ {r}) \cup reqs
              /\ invocations' = Issued(invocations, reqs)
  /\ UNCHANGED << phase, partners, userLocation, radiusMiles, address,
                  mapVisiblePartners, IndexUnused >>

\* the success callback of getCurrentPosition
GetCurrentPositionSuccess ==
  /\ InIndex
  /\ \E r \in pending :
       /\ r.kind = "device"
       /\ pending' = pending \ {r}
  /\ userLocation' = DevicePosition
  /\ busy' = FALSE
  /\ UNCHANGED << phase, partners, radiusMiles, address, alerted, invocations,
                  IndexUnused >>
  /\ IndexRender

\* UseFallback asking the IP service whatever the answer
UseFallback_Automatic(answer) == TRUE

\* if (useFallback): whether the IP service is asked
UseFallback(answer) == answer

\* the error callback of getCurrentPosition, up to the await of
\* ipApproximateLocation(); confirm() blocks until the user answers
GetCurrentPositionError ==
  /\ InIndex
  /\ \E r \in pending, answer \in BOOLEAN :
       /\ r.kind = "device"
       /\ LET reqs == IF UseFallback(answer) THEN {Request("ip", r.inv)} ELSE {}
          IN  /\ pending' = (pending \ {r}) \cup reqs
              /\ invocations' =
                   Issued([invocations EXCEPT ![r.inv].failed = TRUE,
                                              ![r.inv].confirmed = answer,
                                              ![r.inv].declined = ~answer], reqs)
  /\ busy' = FALSE
  /\ UNCHANGED << phase, partners, userLocation, radiusMiles, address, alerted,
                  mapVisiblePartners, IndexUnused >>

\* ipApproximateLocation() and the rest of the error callback: the service
\* answers with two numbers, or the function returns null
IpApproximateLocationResolve ==
  /\ InIndex
  /\ \E r \in pending, approx \in {IpPosition, NoLocation} :
       /\ r.kind = "ip"
       /\ pending' = pending \ {r}
       /\ userLocation' = IF approx.set THEN approx ELSE userLocation
       /\ alerted' = IF approx.set THEN alerted ELSE NoApproximate
  /\ UNCHANGED << phase, partners, radiusMiles, address, busy, invocations,
                  IndexUnused >>
  /\ IndexRender

NextIndex ==
  \/ IndexLoad
  \/ SetAddress
  \/ IndexSetRadiusMiles
  \/ IndexOnClear
  \/ Geocode
  \/ GeocodeResolve
  \/ UseMyLocation
  \/ PermissionResolve
  \/ GetCurrentPositionSuccess
  \/ GetCurrentPositionError
  \/ IpApproximateLocationResolve

SpecIndex == InitIndex /\ [][NextIndex]_vars

\* the operations that are in flight before a step and not after it
Completed == pending \ pending'

\* C16: a resolution that was in flight when the user cleared the reference
\* point or started a newer resolution does not change the reference point
\* when it completes.
C16_LateResultDiscarded ==
  [][\A r \in Completed :
       invocations[r.inv].stale => userLocation' = userLocation]_vars

\* C17: the reference point is always empty or a valid GeoPoint, finite
\* latitude in [-90, 90] and finite longitude in [-180, 180].
C17_ReferencePointValid ==
  InIndex => (~userLocation.set \/ ValidCoordinates(userLocation))

\* the invocation i asked the IP service
AskedIp(i) ==
  invocations[i].ip > 0 \/ Request("ip", i) \in pending

\* C18: an IP request belongs to a Use-my-location click whose device
\* request failed and whose fallback the user confirmed; a declined fallback
\* has no IP request, and the step that declines leaves the reference point
\* as it was.
C18_IpOnlyAfterFailureAndConfirm ==
  /\ [](\A i \in 1..Len(invocations) :
          /\ AskedIp(i) =>
               /\ invocations[i].kind = "device"
               /\ invocations[i].device = 1
               /\ invocations[i].failed
               /\ invocations[i].confirmed
          /\ invocations[i].declined => ~AskedIp(i))
  /\ [][\A i \in 1..Len(invocations) :
          (invocations'[i].declined /\ ~invocations[i].declined) =>
            /\ userLocation' = userLocation
            /\ {r \in pending' : r.kind = "ip"} = {r \in pending : r.kind = "ip"}]_vars

\* one click was declined and asked nothing, another was confirmed and its
\* IP request is in flight
C18_Witness ==
  /\ InIndex
  /\ \E i, j \in 1..Len(invocations) :
       /\ invocations[i].declined /\ invocations[i].failed /\ invocations[i].ip = 0
       /\ invocations[j].confirmed /\ invocations[j].ip = 1
       /\ Request("ip", j) \in pending

\* the response is empty or malformed: not a list, an empty list, or a first
\* candidate without numeric coordinates
Malformed(resp) ==
  \/ resp.shape \in {"notList", "emptyList"}
  \/ /\ resp.shape = "list"
     /\ NumberIsNaN(ParseFloat(resp.lat)) \/ NumberIsNaN(ParseFloat(resp.lon))

\* C19: when the geocoding response is empty or malformed the user is told
\* the address was not found and the reference point keeps its value.
C19_MalformedIsNotFound ==
  [][\A r \in Completed :
       (r.kind = "geocode" /\ Malformed(invocations'[r.inv].response)) =>
         /\ alerted' = AddressNotFound
         /\ userLocation' = userLocation]_vars

\* C20: one click issues at most one request of each strategy: a Search
\* click at most one geocode request and nothing else, a Use-my-location
\* click at most one device request and at most one IP request.
C20_OncePerInvocation ==
  InIndex =>
    \A i \in 1..Len(invocations) :
      /\ invocations[i].geocode <= 1
      /\ invocations[i].device <= 1
      /\ invocations[i].ip <= 1
      /\ invocations[i].kind = "geocode" =>
           invocations[i].device = 0 /\ invocations[i].ip = 0
      /\ invocations[i].kind = "device" => invocations[i].geocode = 0
      /\ Cardinality({r \in pending : r.inv = i}) <= 1

\* a geocode request has failed and a device request has failed, its IP
\* fallback as well, and nothing is in flight
C20_Witness ==
  /\ InIndex
  /\ pending = {}
  /\ alerted = NoApproximate
  /\ \E i, j \in 1..Len(invocations) :
       /\ invocations[i].response.shape = "throw" /\ invocations[i].geocode = 1
       /\ invocations[j].failed /\ invocations[j].device = 1 /\ invocations[j].ip = 1

\* ---------------------------------------------------------------- session snapshot
\* C21: after any sequence of user events the visible list is the visibility
\* filter of the current partners, reference point and radius, and the edge
\* list is the edge builder of the current mode, collabs, members and that
\* visible list.
C21_SnapshotConsistent ==
  InHome =>
    /\ visiblePartners = VisiblePartners(partners, userLocation, radiusMiles)
    /\ collabEdges = CollabEdges(showCollabs, members, collabs, selectedCollabId,
                                 VisiblePartners(partners, userLocation, radiusMiles))

\* the radius was moved to 10 miles with a reference point set, the filter
\* keeps two of three partners and a line is drawn between them
C21_Witness ==
  /\ InHome
  /\ userLocation.set
  /\ radiusMiles = Num(100)
  /\ Len(partners) = 3
  /\ Len(visiblePartners) = 2
  /\ Len(collabEdges) = 1

\* C22: a Clear step leaves no reference point at all, leaves the radius,
\* the checkbox and the eligibility mode as they were, and the visible list
\* after it is the whole partner list.
C22_ClearDiscardsReferencePoint ==
  [][OnClear =>
       /\ userLocation' = NoLocation
       /\ radiusMiles' = radiusMiles
       /\ selectedCollabId' = selectedCollabId
       /\ showCollabs' = showCollabs
       /\ partners' = partners
       /\ visiblePartners' = partners]_vars

\* a reference point is set, the radius is not the initial one, a partner is
\* focused, the filter hides a partner, and Clear brings it back
C22_Witness ==
  /\ InHome
  /\ userLocation.set
  /\ radiusMiles = Num(100)
  /\ selectedCollabId = "all"
  /\ focusPartnerId # ""
  /\ Len(visiblePartners) < Len(partners)
  /\ ENABLED (OnClear /\ Len(visiblePartners') = 3)

\* ---------------------------------------------------------------- distance functions
\* valid GeoPoints: the equator, the poles, Dayton, latitude 35, and their
\* antipodes, on five meridians
GeoPoints ==
  {LatLng(Num(lat), Num(lng)) :
     lat \in {-900, -398, -350, 0, 350, 398, 900},
     lng \in {-1800, -842, 0, 958, 1799, 1800}}

\* the three distance functions on their own: any two valid points, then
\* one call of each
InitDistance ==
  /\ phase = "distance-input"
  /\ pointA \in GeoPoints
  /\ pointB \in GeoPoints
  /\ distance = NotComputed
  /\ AdminIdle
  /\ partners = << >>
  /\ collabs = << >>
  /\ members = << >>
  /\ userLocation = NoLocation
  /\ radiusMiles = Num(50)
  /\ focusPartnerId = ""
  /\ showCollabs = FALSE
  /\ selectedCollabId = "active"
  /\ visiblePartners = << >>
  /\ collabEdges = << >>
  /\ mapVisiblePartners = << >>
  /\ inputLat = << >>
  /\ inputLng = << >>
  /\ norm = NotCalled
  /\ address = ""
  /\ busy = FALSE
  /\ pending = {}
  /\ alerted = ""
  /\ invocations = << >>

ComputeDistance ==
  /\ phase = "distance-input"
  /\ phase' = "distance-done"
  /\ distance' = [km |-> haversineDistance(pointA, pointB),
                  miles |-> haversineMiles(pointA, pointB),
                  clamped |-> milesBetween(pointA, pointB)]
  /\ UNCHANGED << pointA, pointB, adminVars, normalizerVars, filterBarVars >>
  /\ UNCHANGED << partners, collabs, members, userLocation, radiusMiles,
                  focusPartnerId, showCollabs, selectedCollabId,
                  visiblePartners, collabEdges, mapVisiblePartners >>

NextDistance == ComputeDistance

SpecDistance == InitDistance /\ [][NextDistance]_vars

\* d is a distance: a value, and not negative
IsDistance(d) == d.k = "num" /\ d.v >= 0

C24_EveryDistanceClamped ==
  phase = "distance-done" =>
    /\ IsFinite(distance.km)
    /\ IsFinite(distance.miles)
    /\ IsFinite(distance.clamped)
    /\ distance.miles = distance.clamped

\* ---------------------------------------------------------------- number to text
RECURSIVE NatToString(_)
\* the decimal digits of a natural number
NatToString(n) ==
  IF n < 10 THEN << Digits[n + 1] >>
  ELSE NatToString(n \div 10) \o << Digits[(n % 10) + 1] >>

\* NumberToString without the minus sign
NumberToString_Unsigned(x) ==
  IF x.k = "nan" THEN << "N", "a", "N" >>
  ELSE IF x.k = "undef" THEN UndefinedText
  ELSE IF x.k = "inf" THEN InfinityText
  ELSE LET whole == NatToString(Abs(x.v) \div 10)
           tenth == Abs(x.v) % 10
       IN  whole \o (IF tenth = 0 THEN << >> ELSE << ".", Digits[tenth + 1] >>)

\* String(x) for a number x in tenths: "-84.2", "40", "0", "NaN"
NumberToString(x) ==
  IF x.k = "nan" THEN << "N", "a", "N" >>
  ELSE IF x.k = "undef" THEN UndefinedText
  ELSE IF x.k = "inf" THEN InfinityText
  ELSE LET whole == NatToString(Abs(x.v) \div 10)
           tenth == Abs(x.v) % 10
       IN  (IF x.v < 0 THEN << "-" >> ELSE << >>)
           \o whole \o (IF tenth = 0 THEN << >> ELSE << ".", Digits[tenth + 1] >>)

\* ---------------------------------------------------------------- normalizer output
\* C25: every result the normalizer returns is a valid GeoPoint with a
\* longitude that is not positive: latitude in [-90, 90] and longitude in
\* [-180, 0], with and without a swap.
C25_ResultValidWestern ==
  (phase = "norm-done" /\ norm.ok) =>
    /\ norm.lat.k = "num" /\ norm.lng.k = "num"
    /\ -900 <= norm.lat.v /\ norm.lat.v <= 900
    /\ -1800 <= norm.lng.v /\ norm.lng.v <= 0

\* ("84.2", "40.0") was given: both positive, exchanged by the swap
C25_Witness ==
  /\ phase = "norm-done"
  /\ SwapCase
  /\ ParsedLat = Num(842)
  /\ ParsedLng = Num(400)
  /\ norm.ok
  /\ norm.lng = Num(-842)

\* C26: the normalizer returns its own output unchanged: the texts
\* beginEdit puts into the form for a stored normalizer result, given back
\* to the normalizer as updatePartner does, yield the same result.
C26_IdempotentOnOutput ==
  (phase = "norm-done" /\ norm.ok) =>
    normalizeCoordinates(NumberToString(norm.lat), NumberToString(norm.lng)) = norm

\* a swapped result with a fraction in both values, written "-40" and
\* "-84.2" by beginEdit
C26_Witness ==
  /\ phase = "norm-done"
  /\ norm.ok
  /\ SwapCase
  /\ NumberToString(norm.lat) = << "-", "4", "0" >>
  /\ NumberToString(norm.lng) = << "-", "8", "4", ".", "2" >>

\* ---------------------------------------------------------------- edge identifiers
\* C27: in one edge set no two edges have the same identifier and no edge
\* joins a partner to itself, for any collabs and any membership rows,
\* repeated rows included.
C27_EdgeIdsDistinctNoLoops ==
  phase = "edges-done" =>
    /\ \A i, j \in 1..Len(collabEdges) :
         i # j => collabEdges[i].id # collabEdges[j].id
    /\ \A i \in 1..Len(collabEdges) : collabEdges[i].a.id # collabEdges[i].b.id

\* ---------------------------------------------------------------- Admin: partners
\* the most rows of the partners table
MaxPartners == 2

CouldNotFind == "Could not find coordinates for that address. Please enter lat/lng manually."

ProvideEither == "Please provide either (1) an address to geocode or (2) latitude & longitude."

\* error.message of a rejected insert or update
ErrorMessage == "error.message"

\* the id the table gives its n-th row
RowId(n) == << "p1", "p2", "p3", "p4" >>[n]

\* a row of the partners table
Row(id, lat, lng, addr) == [id |-> id, lat |-> lat, lng |-> lng, address |-> addr]

\* the call of insert or update with this payload; message is what the
\* handler alerted when the call failed
Write(lat, lng, message) == [issued |-> TRUE, lat |-> lat, lng |-> lng, alert |-> message]

Form(lat, lng, addr) == [lat |-> lat, lng |-> lng, address |-> addr]

\* what the user fills in: nothing, an address alone, coordinates with a
\* positive longitude, swapped coordinates, a latitude out of range, a
\* latitude that is no number, a latitude alone, blanks
FormChoices ==
  { Form(<< >>, << >>, ""),
    Form(<< >>, << >>, "1 Main St"),
    Form(<< "4", "0", ".", "0" >>, << "8", "4", ".", "2" >>, "1 Main St"),
    Form(<< "8", "4", ".", "2" >>, << "4", "0", ".", "0" >>, ""),
    Form(<< "9", "5", ".", "0" >>, << "8", "4", ".", "2" >>, "1 Main St"),
    Form(<< "a", "b", "c" >>, << "8", "4", ".", "2" >>, ""),
    Form(<< "4", "0", ".", "0" >>, << >>, "1 Main St"),
    Form(<< " " >>, << " " >>, "") }

\* what geocodeAddress returns: null, the first candidate's lat and lon
\* parsed, or NaN for a candidate that has neither
GeocodeAddressResults ==
  { NoLocation,
    LatLng(ParseFloat(<< "3", "9", ".", "8" >>), ParseFloat(<< "-", "8", "4", ".", "2" >>)),
    LatLng(ParseFloat(UndefinedText), ParseFloat(UndefinedText)) }

\* form.lat != null && String(form.lat).trim() !== '' && the same for lng
HasLatLng(f) == Trim(f.lat) # << >> /\ Trim(f.lng) # << >>

\* alert(message); return
AlertReturn(message) == Throw(message)

\* the coordinates of savePartner and updatePartner: from the two fields,
\* else from the address, else none
Coordinates(f, geo) ==
  IF HasLatLng(f) THEN normalizeCoordinates(f.lat, f.lng)
  ELSE IF f.address # ""
       THEN IF ~geo.set THEN AlertReturn(CouldNotFind)
            ELSE normalizeCoordinates(NumberToString(geo.lat), NumberToString(geo.lng))
  ELSE AlertReturn(ProvideEither)

\* lat double precision not null: NaN and Infinity are null in the JSON
\* body of the request and the row is rejected
Rejected(lat, lng) == ~IsFinite(lat) \/ ~IsFinite(lng)

\* the table with the coordinates and the address of the row id replaced
Updated(rows, id, lat, lng, addr) ==
  [i \in 1..Len(rows) |->
     IF rows[i].id = id THEN Row(id, lat, lng, addr) ELSE rows[i]]

InAdmin == phase = "admin"

\* what no action of the partner form touches
AdminUnused ==
  << partners, collabs, members, userLocation, radiusMiles, focusPartnerId,
     showCollabs, selectedCollabId, visiblePartners, collabEdges,
     mapVisiblePartners, normalizerVars, filterBarVars, distanceVars,
     editingCollabId, selectedPartnerIds, memberTable >>

\* the Admin page after login, the table empty
InitAdmin ==
  /\ phase = "admin"
  /\ AdminIdle
  /\ DistanceIdle
  /\ partners = << >>
  /\ collabs = << >>
  /\ members = << >>
  /\ userLocation = NoLocation
  /\ radiusMiles = Num(50)
  /\ focusPartnerId = ""
  /\ showCollabs = FALSE
  /\ selectedCollabId = "active"
  /\ visiblePartners = << >>
  /\ collabEdges = << >>
  /\ mapVisiblePartners = << >>
  /\ inputLat = << >>
  /\ inputLng = << >>
  /\ norm = NotCalled
  /\ address = ""
  /\ busy = FALSE
  /\ pending = {}
  /\ alerted = ""
  /\ invocations = << >>

\* the onChange handlers of the form: the user fills it in
SetForm ==
  /\ InAdmin
  /\ form' \in FormChoices \ {form}
  /\ UNCHANGED << phase, editingId, table, lastSave, AdminUnused >>

\* beginEdit(p)
BeginEdit ==
  /\ InAdmin
  /\ \E i \in 1..Len(table) :
       /\ editingId' = table[i].id
       /\ form' = Form(NumberToString(table[i].lat), NumberToString(table[i].lng),
                       table[i].address)
  /\ UNCHANGED << phase, table, lastSave, AdminUnused >>

\* savePartner() of the Admin page that normalizes
SavePartner ==
  /\ InAdmin
  /\ Len(table) < MaxPartners
  /\ \E geo \in GeocodeAddressResults, error \in BOOLEAN :
       LET c == Coordinates(form, geo)
       IN  IF ~c.ok
           THEN /\ lastSave' = NoWrite(c.error)
                /\ UNCHANGED << form, table >>
           ELSE IF error \/ Rejected(c.lat, c.lng)
           THEN /\ lastSave' = Write(c.lat, c.lng, ErrorMessage)
                /\ UNCHANGED << form, table >>
           ELSE /\ lastSave' = Write(c.lat, c.lng, "")
                /\ table' = Append(table, Row(RowId(Len(table) + 1), c.lat, c.lng,
                                              form.address))
                /\ form' = EmptyForm
  /\ UNCHANGED << phase, editingId, AdminUnused >>

\* updatePartner() of the Admin page that normalizes
UpdatePartner ==
  /\ InAdmin
  /\ editingId # ""
  /\ \E geo \in GeocodeAddressResults, error \in BOOLEAN :
       LET c == Coordinates(form, geo)
       IN  IF ~c.ok
           THEN /\ lastSave' = NoWrite(c.error)
                /\ UNCHANGED << form, table, editingId >>
           ELSE IF error \/ Rejected(c.lat, c.lng)
           THEN /\ lastSave' = Write(c.lat, c.lng, ErrorMessage)
                /\ UNCHANGED << form, table, editingId >>
           ELSE /\ lastSave' = Write(c.lat, c.lng, "")
                /\ table' = Updated(table, editingId, c.lat, c.lng, form.address)
                /\ editingId' = ""
                /\ form' = EmptyForm
  /\ UNCHANGED << phase, AdminUnused >>

\* savePartner() of pages/admin.tsx: lat: parseFloat(form.lat)
AdminSavePartner ==
  /\ InAdmin
  /\ Len(table) < MaxPartners
  /\ \E error \in BOOLEAN :
       LET lat == ParseFloat(form.lat)
           lng == ParseFloat(form.lng)
       IN  IF error \/ Rejected(lat, lng)
           THEN /\ lastSave' = Write(lat, lng, ErrorMessage)
                /\ UNCHANGED << form, table >>
           ELSE /\ lastSave' = Write(lat, lng, "")
                /\ table' = Append(table, Row(RowId(Len(table) + 1), lat, lng,
                                              form.address))
                /\ form' = EmptyForm
  /\ UNCHANGED << phase, editingId, AdminUnused >>

\* updatePartner() of pages/admin.tsx
AdminUpdatePartner ==
  /\ InAdmin
  /\ editingId # ""
  /\ \E error \in BOOLEAN :
       LET lat == ParseFloat(form.lat)
           lng == ParseFloat(form.lng)
       IN  IF error \/ Rejected(lat, lng)
           THEN /\ lastSave' = Write(lat, lng, ErrorMessage)
                /\ UNCHANGED << form, table, editingId >>
           ELSE /\ lastSave' = Write(lat, lng, "")
                /\ table' = Updated(table, editingId, lat, lng, form.address)
                /\ editingId' = ""
                /\ form' = EmptyForm
  /\ UNCHANGED << phase, AdminUnused >>

NextAdmin ==
  \/ SetForm
  \/ BeginEdit
  \/ SavePartner
  \/ UpdatePartner
  \/ AdminSavePartner
  \/ AdminUpdatePartner

SpecAdmin == InitAdmin /\ [][NextAdmin]_vars

\* a click on Save or Update, in either version of the page
SaveOrUpdate == SavePartner \/ UpdatePartner \/ AdminSavePartner \/ AdminUpdatePartner

\* the form gives no coordinates: the two fields do not normalize, or a
\* field is blank and there is no address
NoCoordinates ==
  \/ HasLatLng(form) /\ ~normalizeCoordinates(form.lat, form.lng).ok
  \/ ~HasLatLng(form) /\ form.address = ""

\* C28: no save and no update writes coordinates that are NaN or out of
\* range, in the request it issues or in the table; a save or update whose
\* form gives no coordinates, or whose geocoding finds nothing or nothing
\* that normalizes, issues no write and leaves the form, the editing state
\* and the table as they were.
C28_OnlyNormalizedCoordinatesWritten ==
  /\ [](InAdmin =>
          /\ lastSave.issued => ValidCoordinates(lastSave)
          /\ \A i \in 1..Len(table) : ValidCoordinates(table[i]))
  /\ [][(SaveOrUpdate /\ (NoCoordinates \/ lastSave'.alert \in
                            {CouldNotFind, InvalidFormat, OutOfRange}))
          => /\ ~lastSave'.issued
             /\ form' = form
             /\ editingId' = editingId
             /\ table' = table]_vars

\* ---------------------------------------------------------------- one resolution at a time
\* C29: while busy is set no click starts a resolution, and at most one
\* location request is in flight at any time.
C29_AtMostOneRequestInFlight ==
  /\ [](InIndex => Cardinality(pending) <= 1)
  /\ [][busy => Len(invocations') = Len(invocations)]_vars

\* ---------------------------------------------------------------- Admin: collabs
\* the partner ids of the rows of one collab
MembersOf(rows, cid) == {r.partner_id : r \in {x \in rows : x.collab_id = cid}}

\* selectedPartnerIds.map((pid) => ({ collab_id: row.id, partner_id: pid }))
RowsFor(cid, selected) == {CollabMember(cid, selected[i]) : i \in 1..Len(selected)}

\* the orders in which the table can return the partner ids S
Orders(S) ==
  {q \in SeqsUpTo(S, Cardinality(S)) : Len(q) = Cardinality(S) /\ Range(q) = S}

\* the onChange of a member checkbox
Toggle(selected, pid) ==
  IF pid \in Range(selected)
  THEN SelectSeq(selected, LAMBDA id : id # pid)
  ELSE Append(selected, pid)

InCollab == phase = "admin-collabs"

\* what no action of the collab form touches
CollabUnused ==
  << partners, members, userLocation, radiusMiles, focusPartnerId,
     showCollabs, selectedCollabId, visiblePartners, collabEdges,
     mapVisiblePartners, normalizerVars, distanceVars, address, busy, pending,
     invocations, form, editingId, table, lastSave >>

\* the Admin page after login, both tables empty; collabs holds the rows of
\* the collabs table, which the page lists
InitCollab ==
  /\ phase = "admin-collabs"
  /\ AdminIdle
  /\ DistanceIdle
  /\ partners = << >>
  /\ collabs = << >>
  /\ members = << >>
  /\ userLocation = NoLocation
  /\ radiusMiles = Num(50)
  /\ focusPartnerId = ""
  /\ showCollabs = FALSE
  /\ selectedCollabId = "active"
  /\ visiblePartners = << >>
  /\ collabEdges = << >>
  /\ mapVisiblePartners = << >>
  /\ inputLat = << >>
  /\ inputLng = << >>
  /\ norm = NotCalled
  /\ address = ""
  /\ busy = FALSE
  /\ pending = {}
  /\ alerted = ""
  /\ invocations = << >>

\* a member checkbox is checked or unchecked
ToggleMember ==
  /\ InCollab
  /\ \E pid \in PartnerIds : selectedPartnerIds' = Toggle(selectedPartnerIds, pid)
  /\ UNCHANGED << phase, collabs, editingCollabId, memberTable, alerted, CollabUnused >>

\* the Edit button of a collab: the member ids are fetched (none when the
\* request fails), then beginEditCollab(c, ids)
BeginEditCollab ==
  /\ InCollab
  /\ \E i \in 1..Len(collabs), error \in BOOLEAN :
       /\ editingCollabId' = collabs[i].id
       /\ selectedPartnerIds' \in
            (IF error THEN {<< >>} ELSE Orders(MembersOf(memberTable, collabs[i].id)))
  /\ UNCHANGED << phase, collabs, memberTable, alerted, CollabUnused >>

\* saveCollab(), "Sync members": the delete, its result not looked at, then
\* the insert when there is a selection
SaveCollabRows(rows, cid, selected, deleteError, insertError) ==
  LET deleted == IF deleteError THEN rows ELSE {r \in rows : r.collab_id # cid}
  IN  IF selected # << >> /\ ~insertError
      THEN deleted \cup RowsFor(cid, selected)
      ELSE deleted

\* saveCollab()
SaveCollab ==
  /\ InCollab
  /\ \E id \in CollabIds, upsertError, deleteError, insertError \in BOOLEAN :
       /\ IF editingCollabId = "" THEN id \notin Ids(collabs) ELSE id = editingCollabId
       /\ IF upsertError
          THEN /\ alerted' = ErrorMessage
               /\ UNCHANGED << collabs, memberTable, editingCollabId, selectedPartnerIds >>
          ELSE /\ collabs' = IF id \in Ids(collabs) THEN collabs
                             ELSE Append(collabs, Collab(id, "active", "#2563eb"))
               /\ memberTable' = SaveCollabRows(memberTable, id, selectedPartnerIds,
                                                deleteError, insertError)
               /\ IF selectedPartnerIds # << >> /\ insertError
                  THEN /\ alerted' = ErrorMessage
                       /\ UNCHANGED << editingCollabId, selectedPartnerIds >>
                  ELSE /\ editingCollabId' = ""
                       /\ selectedPartnerIds' = << >>
                       /\ UNCHANGED alerted
  /\ UNCHANGED << phase, CollabUnused >>

NextCollab ==
  \/ ToggleMember
  \/ BeginEditCollab
  \/ SaveCollab

SpecCollab == InitCollab /\ [][NextCollab]_vars

\* C30: a save replaces the membership of a collab as one unit: after it
\* the rows of every collab are exactly the selected partner ids or exactly
\* the rows before, so a failed save never leaves a collab without the
\* members it had.
C30_MembershipReplacedAsUnit ==
  [][SaveCollab =>
       \A c \in CollabIds :
         \/ MembersOf(memberTable', c) = MembersOf(memberTable, c)
         \/ MembersOf(memberTable', c) = Range(selectedPartnerIds)]_vars

====
